---- MODULE Spec2Model ----
(***************************************************************************)
(* Model of the DDR ingestion pipeline of ddr_assistant:                   *)
(*   - BatchProcessor.initialize_data   (utils/batch_processor.py)         *)
(*   - process_single_file, the worker  (utils/batch_processor.py)         *)
(*   - ReportProcessor.process_pdf_to_database (utils/report_processor.py) *)
(*   - DatabaseManager save_* / get_all_reports / delete_report            *)
(*                                         (utils/db_manager.py)           *)
(* The SQLite store is opened in autocommit mode (isolation_level = None)  *)
(* with foreign keys ON, and every save_* call opens its own connection,   *)
(* so every save_* call is one committed step of its own.                  *)
(* multiprocessing.Pool is taken to work as documented: the handlers of    *)
(* batch_processor.py lines 79-82 are reached only when the library itself *)
(* fails, and process_single_file returns a picklable pair in every case.  *)
(***************************************************************************)
EXTENDS Integers, Sequences, FiniteSets, TLC

\* ----------------------------------------------------------------- bounds
MaxFiles == 2       \* file names of the universe: 1..MaxFiles
MaxRuns == 2        \* calls of initialize_data in one behaviour
MaxRecs == 1        \* records one child table of a document maps to
MaxDeletes == 1     \* calls of delete_report in one behaviour
MaxStored == 3      \* report_metadata rows in the store at the start of a call
MaxLen == 4         \* characters of a cell text
MaxStem == 7        \* characters of a file name stem
MaxLabel == 4       \* characters of the label in a key-value table of one row
MaxRows == 4        \* rows of a table that is classified
MaxCols == 5        \* columns of a table that is classified
MaxKey == 3         \* characters of a key that is resolved to a field
MaxSections == 3    \* sections of a document whose tables are merged
MaxLabel2 == 2      \* characters of a label in a key-value table of two rows

\* File names are integers; their numeric order is the lexicographic order
\* of sorted(glob("*.pdf")).
Files == 1..MaxFiles

\* The three child tables, in the order process_pdf_to_database writes them.
ChildTables == <<"operations", "drilling_fluid", "gas_readings">>

ChildNames == {ChildTables[k] : k \in 1..Len(ChildTables)}

\* Marks a section table that is not in the extracted `tables` dict.
Absent == -1

\* What extract_all_data returns for the three tagged sections, each of which
\* has no table (Absent) or a table that maps to some number of records. The
\* documents fed to the model have one of three shapes: no tagged table at
\* all, every tagged table with MaxRecs records, and an operations table
\* whose rows are all dropped next to a gas table with MaxRecs records.
ExtractedTables ==
    { [t \in ChildNames |-> Absent],
      [t \in ChildNames |-> MaxRecs],
      [t \in ChildNames |-> IF t = "operations" THEN 0
                            ELSE IF t = "gas_readings" THEN MaxRecs ELSE Absent] }

NoWorker == [pc |-> "none", file |-> 0, tables |-> [t \in ChildNames |-> Absent],
             report_id |-> 0, k |-> 0, error |-> "none"]

VARIABLES
    dir_exists,     \* data_dir.exists()
    pdf_dir,        \* the *.pdf files in data_dir
    db,             \* the store: one set of rows per table
    next_uuid,      \* uuid4() of ReportMetadata(): the next fresh report_id
    entity,         \* entity[rid]: the tables the document of report rid was extracted to
    pc,             \* controller: "idle" | "loop" | "wait"
    run,            \* number of initialize_data calls started
    pdf_files,      \* sorted listing taken by the current run
    existing_reports_filenames,
    i,              \* loop index (0-based, as enumerate)
    processed_count,
    skipped_count,
    status,         \* first component of the returned pair, "none" before a return
    message,        \* second component of the returned pair
    progress,       \* calls of progress_callback of the current run
    w,              \* the worker process of the pool
    doc_state,      \* per document of the current run
    doc_error,      \* per document: the kind of error its worker returned
    doc_rid,        \* per document: the report_id its worker generated (0: none)
    handed,         \* per document: times it was handed to a worker in this run
    db0,            \* the store when the current run started
    rerun,          \* the current run repeats the previous one: same directory, same store
    unchanged,      \* nothing but the run itself touched directory and store since the last return
    n_deletes,
    last_delete,    \* argument and return value of the last delete_report call
    fn_arg,         \* the argument of the function a function-level check applies
    fn_res          \* its result, <<>> before the call

mainVars == <<dir_exists, pdf_dir, db, next_uuid, entity, pc, run, pdf_files,
              existing_reports_filenames, i, processed_count, skipped_count,
              status, message, progress, w, doc_state, doc_error, doc_rid,
              handed, db0, rerun, unchanged, n_deletes, last_delete>>

fnVars == <<fn_arg, fn_res>>

vars == <<mainVars, fnVars>>

ctlVars == <<pc, run, pdf_files, existing_reports_filenames, i,
             processed_count, skipped_count, status, message, progress>>
docVars == <<doc_state, doc_error, doc_rid, handed>>
envVars == <<dir_exists, pdf_dir>>
runVars == <<db0, rerun>>
delVars == <<n_deletes, last_delete>>

\* ------------------------------------------------------------ the store
EmptyDb == [report_metadata |-> {}, operations |-> {},
            drilling_fluid |-> {}, gas_readings |-> {}]

ReportIds(d) == {m.report_id : m \in d.report_metadata}

FileNames(d) == {m.file_name : m \in d.report_metadata}

\* The rows of report rid in child table t.
RowsOf(d, t, rid) == {r \in d[t] : r.report_id = rid}

\* Every child row of report rid, tagged with its table.
ChildRows(d, rid) == UNION {{<<t, r>> : r \in RowsOf(d, t, rid)} : t \in ChildNames}

\* Report rid has a row in some table.
HasRows(d, rid) == rid \in ReportIds(d) \/ ChildRows(d, rid) # {}

\* DatabaseManager.save_report_metadata: append one row.
save_report_metadata(d, metadata) ==
    [d EXCEPT !.report_metadata = @ \cup {metadata}]

\* A store that does not enforce its foreign keys.
ForeignKeyOff(d, rid) == TRUE

\* FOREIGN KEY (report_id) REFERENCES report_metadata(report_id), enforced
\* because get_db_connection sets PRAGMA foreign_keys = ON.
ForeignKeyOk(d, rid) == rid \in ReportIds(d)

\* DatabaseManager.save_operations / save_drilling_fluid / save_gas_readings:
\* append the n records of report rid to table t (nothing when the list is empty).
save_records(d, t, rid, n) ==
    IF n = 0 THEN d
    ELSE [d EXCEPT ![t] = @ \cup {[report_id |-> rid, n |-> j] : j \in 1..n}]

\* A delete_report whose DELETE does not cascade to gas_readings.
delete_report_no_cascade(d, id) ==
    IF id \notin ReportIds(d)
    THEN [db |-> d, ret |-> FALSE]
    ELSE [db |-> [report_metadata |-> {m \in d.report_metadata : m.report_id # id},
                  operations      |-> {r \in d.operations : r.report_id # id},
                  drilling_fluid  |-> {r \in d.drilling_fluid : r.report_id # id},
                  gas_readings    |-> d.gas_readings],
          ret |-> TRUE]

\* DatabaseManager.delete_report: False when the report is not there,
\* otherwise DELETE with ON DELETE CASCADE on the three child tables.
delete_report(d, id) ==
    IF id \notin ReportIds(d)
    THEN [db |-> d, ret |-> FALSE]
    ELSE [db |-> [report_metadata |-> {m \in d.report_metadata : m.report_id # id},
                  operations      |-> {r \in d.operations : r.report_id # id},
                  drilling_fluid  |-> {r \in d.drilling_fluid : r.report_id # id},
                  gas_readings    |-> {r \in d.gas_readings : r.report_id # id}],
          ret |-> TRUE]

\* --------------------------------------------------------------- helpers
RECURSIVE SortedSeq_descending(_)
\* A listing in descending order of the names.
SortedSeq_descending(S) ==
    IF S = {} THEN <<>>
    ELSE LET x == CHOOSE y \in S : \A z \in S : z <= y
         IN  <<x>> \o SortedSeq_descending(S \ {x})

RECURSIVE SortedSeq(_)
\* sorted(list(...)): the files of S in ascending order.
SortedSeq(S) ==
    IF S = {} THEN <<>>
    ELSE LET m == CHOOSE x \in S : \A y \in S : x <= y
         IN <<m>> \o SortedSeq(S \ {m})

total_files == Len(pdf_files)

\* The step of the worker after child table number k: the next tagged table
\* that is in `tables`, or the return of process_pdf_to_database.
NextStage(tables, k) ==
    LET later == {j \in (k+1)..Len(ChildTables) : tables[ChildTables[j]] # Absent}
    IN IF later = {} THEN [pc |-> "done", k |-> 0]
       ELSE [pc |-> "map_child", k |-> CHOOSE j \in later : \A j2 \in later : j <= j2]

\* ------------------------------------------------------------------ Init
\* No function is under check, or the function has not been called yet.
NotCalled == [kind |-> "not_called"]

\* The controller, the worker and the bookkeeping before the first call.
IdleInit ==
    /\ pc = "idle"
    /\ run = 0
    /\ pdf_files = <<>>
    /\ existing_reports_filenames = {}
    /\ i = 0
    /\ processed_count = 0
    /\ skipped_count = 0
    /\ status = "none"
    /\ message = [kind |-> "none"]
    /\ progress = <<>>
    /\ w = NoWorker
    /\ doc_state = [f \in Files |-> "None"]
    /\ doc_error = [f \in Files |-> "none"]
    /\ doc_rid = [f \in Files |-> 0]
    /\ handed = [f \in Files |-> 0]
    /\ db0 = EmptyDb
    /\ rerun = FALSE
    /\ unchanged = FALSE
    /\ n_deletes = 0
    /\ last_delete = [id |-> 0, ret |-> FALSE, had_children |-> FALSE]

\* A fresh store, and any directory.
Init ==
    /\ dir_exists \in BOOLEAN
    /\ pdf_dir \in SUBSET Files
    /\ (~dir_exists => pdf_dir = {})
    /\ db = EmptyDb
    /\ next_uuid = 1
    /\ entity = <<>>
    /\ IdleInit
    /\ fn_arg = NotCalled
    /\ fn_res = NotCalled

\* ------------------------------------------------- environment operations
\* The user adds or removes documents, or the directory itself, between runs.
ChangeDirectory ==
    /\ UNCHANGED fnVars
    /\ pc = "idle"
    /\ run >= 1
    /\ run < MaxRuns
    /\ \E e \in BOOLEAN, S \in SUBSET Files :
          /\ (~e => S = {})
          /\ <<e, S>> # <<dir_exists, pdf_dir>>
          /\ dir_exists' = e
          /\ pdf_dir' = S
    /\ unchanged' = FALSE
    /\ UNCHANGED <<db, next_uuid, entity, ctlVars, w, docVars, runVars, delVars>>

\* A call of DatabaseManager.delete_report(id), at any moment.
DeleteReport ==
    /\ UNCHANGED fnVars
    /\ n_deletes < MaxDeletes
    /\ \E id \in 1..next_uuid :
          LET r == delete_report(db, id)
          IN /\ db' = r.db
             /\ last_delete' = [id |-> id, ret |-> r.ret,
                                 had_children |-> ChildRows(db, id) # {}]
             /\ entity' = [x \in DOMAIN entity \ {id} |-> entity[x]]
    /\ n_deletes' = n_deletes + 1
    /\ unchanged' = FALSE
    /\ rerun' = FALSE
    /\ UNCHANGED <<envVars, next_uuid, ctlVars, w, docVars, db0>>

\* The two checks in the other order: a missing directory lists no file.
DirectoryCheck_listing_first(e, S) ==
    IF S = {} THEN "warning" ELSE IF ~e THEN "error" ELSE "ok"

\* initialize_data, lines 27-34: what the checks of the directory and of the
\* listing make of a directory (e: it exists, S: its *.pdf files).
DirectoryCheck(e, S) ==
    IF ~e THEN "error" ELSE IF S = {} THEN "warning" ELSE "ok"

\* initialize_data, lines 38-40: the run returns "All pdfs are already
\* added" when get_all_reports returned and len(existing_reports), the number
\* of report_metadata rows, is len(pdf_files).
ShortCircuit(read_ok, d, S) ==
    read_ok /\ Cardinality(d.report_metadata) = Cardinality(S)

\* ------------------------------------------- initialize_data, lines 27-52
\* The part of initialize_data before the loop: the directory check, the
\* listing, the read of the existing reports and the short-circuit.
StartRun ==
    /\ UNCHANGED fnVars
    /\ pc = "idle"
    /\ run < MaxRuns
    /\ run' = run + 1
    /\ db0' = db
    /\ rerun' = (run >= 1 /\ unchanged)
    /\ progress' = <<>>
    /\ processed_count' = 0
    /\ skipped_count' = 0
    /\ i' = 0
    /\ doc_error' = [f \in Files |-> "none"]
    /\ doc_rid' = [f \in Files |-> 0]
    /\ handed' = [f \in Files |-> 0]
    /\ IF DirectoryCheck(dir_exists, pdf_dir) = "error"
       THEN /\ status' = "error"
            /\ message' = [kind |-> "not_found"]
            /\ pdf_files' = <<>>
            /\ existing_reports_filenames' = {}
            /\ doc_state' = [f \in Files |-> "None"]
            /\ pc' = "idle"
            /\ unchanged' = TRUE
       ELSE IF DirectoryCheck(dir_exists, pdf_dir) = "warning"
       THEN /\ status' = "warning"
            /\ message' = [kind |-> "no_pdf"]
            /\ pdf_files' = <<>>
            /\ existing_reports_filenames' = {}
            /\ doc_state' = [f \in Files |-> "None"]
            /\ pc' = "idle"
            /\ unchanged' = TRUE
       ELSE /\ pdf_files' = SortedSeq(pdf_dir)
            /\ doc_state' = [f \in Files |-> IF f \in pdf_dir THEN "Discovered" ELSE "None"]
            \* get_all_reports either returns the rows or raises (caught, line 45)
            /\ \E read_ok \in BOOLEAN :
                  IF ShortCircuit(read_ok, db, pdf_dir)
                  THEN /\ status' = "success"
                       /\ message' = [kind |-> "all_added"]
                       /\ existing_reports_filenames' = {}
                       /\ pc' = "idle"
                       /\ unchanged' = TRUE
                  ELSE /\ existing_reports_filenames' =
                              (IF read_ok THEN FileNames(db) ELSE {})
                       /\ status' = "none"
                       /\ message' = [kind |-> "none"]
                       /\ pc' = "loop"
                       /\ unchanged' = FALSE
    /\ UNCHANGED <<envVars, db, next_uuid, entity, w, delVars>>

\* ------------------------------------------- initialize_data, lines 54-69
\* One iteration of the loop up to the hand-over: the progress callback,
\* then either the skip of an already ingested file or the start of a worker.
Visit ==
    /\ UNCHANGED fnVars
    /\ pc = "loop"
    /\ i < total_files
    /\ LET name == pdf_files[i + 1]
       IN /\ progress' = Append(progress, <<i, total_files, name>>)
          /\ IF name \in existing_reports_filenames
             THEN /\ skipped_count' = skipped_count + 1
                  /\ doc_state' = [doc_state EXCEPT ![name] = "Skipped"]
                  /\ i' = i + 1
                  /\ UNCHANGED <<pc, w, handed>>
             ELSE /\ pc' = "wait"
                  /\ w' = [NoWorker EXCEPT !.pc = "extract", !.file = name]
                  /\ handed' = [handed EXCEPT ![name] = @ + 1]
                  /\ doc_state' = [doc_state EXCEPT ![name] = "InWorker"]
                  /\ UNCHANGED <<i, skipped_count>>
    /\ UNCHANGED <<envVars, db, next_uuid, entity, run, pdf_files, existing_reports_filenames,
                   processed_count, status, message, doc_error, doc_rid,
                   runVars, unchanged, delVars>>

\* initialize_data, line 84: the loop is over, the summary is returned.
Finish ==
    /\ UNCHANGED fnVars
    /\ pc = "loop"
    /\ i = total_files
    /\ status' = "success"
    /\ message' = [kind |-> "batch", processed |-> processed_count,
                   skipped |-> skipped_count]
    /\ pc' = "idle"
    /\ unchanged' = TRUE
    /\ UNCHANGED <<envVars, db, next_uuid, entity, run, pdf_files, existing_reports_filenames,
                   i, processed_count, skipped_count, progress, w, docVars,
                   runVars, delVars>>

\* A loop that gives up the batch at the first document that is not processed.
NextIndex_abort(outcome) == IF outcome = "ok" THEN i + 1 ELSE total_files

\* The for loop of line 54: whatever the outcome of a document ("ok",
\* "failed", "timeout"), the loop goes on with the next index.
NextIndex(outcome) == i + 1

\* The controller moves to the next document: the `with` block is left, which
\* terminates the pool and its worker.
\* Going on to the next document with the pool left running.
NextDocument_pool_left_running(outcome) ==
    /\ i' = NextIndex(outcome)
    /\ pc' = "loop"
    /\ w' = w

NextDocument(outcome) ==
    /\ i' = NextIndex(outcome)
    /\ pc' = "loop"
    /\ w' = NoWorker

\* initialize_data, lines 71-75: the worker's result arrives in time.
GetResult ==
    /\ UNCHANGED fnVars
    /\ pc = "wait"
    /\ w.pc \in {"done", "failed"}
    /\ IF w.pc = "done"
       THEN /\ processed_count' = processed_count + 1
            /\ doc_state' = [doc_state EXCEPT ![w.file] = "Committed"]
            /\ UNCHANGED doc_error
       ELSE /\ doc_state' = [doc_state EXCEPT ![w.file] = "Failed"]
            /\ doc_error' = [doc_error EXCEPT ![w.file] = w.error]
            /\ UNCHANGED processed_count
    /\ NextDocument(IF w.pc = "done" THEN "ok" ELSE "failed")
    /\ UNCHANGED <<envVars, db, next_uuid, entity, run, pdf_files, existing_reports_filenames,
                   skipped_count, status, message, progress, doc_rid, handed,
                   runVars, unchanged, delVars>>

\* A deadline that expires only once the worker has returned.
DeadlineExpires_after_return(worker) == worker.pc \in {"done", "failed"}

\* Line 71: result.get(timeout=timeout_seconds) raises TimeoutError when the
\* time is up, whatever the worker is doing.
DeadlineExpires(worker) == TRUE

\* initialize_data, lines 76-78: result.get times out, wherever the worker is;
\* leaving the `with` block terminates the pool and its worker.
Timeout ==
    /\ UNCHANGED fnVars
    /\ pc = "wait"
    /\ DeadlineExpires(w)
    /\ skipped_count' = skipped_count + 1
    /\ doc_state' = [doc_state EXCEPT ![w.file] = "TimedOut"]
    /\ NextDocument("timeout")
    /\ UNCHANGED <<envVars, db, next_uuid, entity, run, pdf_files, existing_reports_filenames,
                   processed_count, status, message, progress, doc_error, doc_rid,
                   handed, runVars, unchanged, delVars>>

\* --------------------------------- the worker: process_single_file and
\* ReportProcessor.process_pdf_to_database, one action per step
wUnchanged == <<envVars, ctlVars, doc_state, doc_error, handed, runVars,
                unchanged, delVars>>

\* process_single_file, lines 17-18: any exception becomes (False, str(e)).
Raise(kind) == w' = [w EXCEPT !.pc = "failed", !.error = kind]

\* process_pdf_to_database, lines 28-29: PDFProcessor(pdf_path) and
\* extract_all_data either raise or return the extracted tables.
Extract ==
    /\ UNCHANGED fnVars
    /\ w.pc = "extract"
    /\ \/ Raise("extraction")
       \/ \E tables \in ExtractedTables :
             w' = [w EXCEPT !.pc = "map_meta", !.tables = tables]
    /\ UNCHANGED <<db, next_uuid, entity, doc_rid, wUnchanged>>

\* process_pdf_to_database, lines 36-48: _create_metadata_from_tables builds
\* the ReportMetadata (with a fresh report_id) and the file name fields are set.
CreateMetadata ==
    /\ UNCHANGED fnVars
    /\ w.pc = "map_meta"
    /\ \/ /\ Raise("mapping")
          /\ UNCHANGED <<next_uuid, doc_rid>>
       \/ /\ w' = [w EXCEPT !.pc = "save_meta", !.report_id = next_uuid]
          /\ next_uuid' = next_uuid + 1
          /\ doc_rid' = [doc_rid EXCEPT ![w.file] = next_uuid]
    /\ UNCHANGED <<db, entity, wUnchanged>>

\* process_pdf_to_database, line 50: save_report_metadata raises or commits
\* the report_metadata row.
SaveMetadata ==
    /\ UNCHANGED fnVars
    /\ w.pc = "save_meta"
    /\ \/ /\ Raise("persistence")
          /\ UNCHANGED <<db, entity>>
       \/ /\ db' = save_report_metadata(db, [report_id |-> w.report_id,
                                             file_name |-> w.file])
          /\ entity' = (w.report_id :> w.tables) @@ entity
          /\ LET nx == NextStage(w.tables, 0)
             IN w' = [w EXCEPT !.pc = nx.pc, !.k = nx.k]
    /\ UNCHANGED <<next_uuid, doc_rid, wUnchanged>>

\* process_pdf_to_database, lines 55-58, 63-66, 71-74: the records of the
\* next tagged table are built from it (_create_*_from_table), or that raises.
MapChild ==
    /\ UNCHANGED fnVars
    /\ w.pc = "map_child"
    /\ \/ Raise("mapping")
       \/ w' = [w EXCEPT !.pc = "save_child"]
    /\ UNCHANGED <<db, next_uuid, entity, doc_rid, wUnchanged>>

\* process_pdf_to_database, lines 59, 67, 75: save_operations,
\* save_drilling_fluid or save_gas_readings raises (always when the foreign
\* key has no parent row) or commits the rows of its table.
SaveChild ==
    /\ UNCHANGED fnVars
    /\ w.pc = "save_child"
    /\ LET t == ChildTables[w.k]
           n == w.tables[t]
       IN \/ /\ n > 0
             /\ Raise("persistence")
             /\ UNCHANGED db
          \/ /\ n > 0 => ForeignKeyOk(db, w.report_id)
             /\ db' = save_records(db, t, w.report_id, n)
             /\ LET nx == NextStage(w.tables, w.k)
                IN w' = [w EXCEPT !.pc = nx.pc, !.k = nx.k]
    /\ UNCHANGED <<next_uuid, entity, doc_rid, wUnchanged>>

Next ==
    \/ ChangeDirectory
    \/ DeleteReport
    \/ StartRun
    \/ Visit
    \/ Finish
    \/ GetResult
    \/ Timeout
    \/ Extract
    \/ CreateMetadata
    \/ SaveMetadata
    \/ MapChild
    \/ SaveChild

Spec == Init /\ [][Next]_vars

\* ------------------------------------- one call on a store of earlier calls
\* The stores earlier calls leave behind: one report_metadata row per
\* document that got as far as save_report_metadata, each with its own uuid.
\* report_metadata has no uniqueness constraint on file_name (SCHEMA, lines
\* 24-46), and a call whose read of the existing reports failed (line 45)
\* ingests files that are stored already, so two rows may share a file_name.
StoredReports ==
    UNION {{[report_metadata |-> {[report_id |-> r, file_name |-> names[r]] : r \in 1..n},
             operations |-> {}, drilling_fluid |-> {}, gas_readings |-> {}] :
               names \in [1..n -> Files]} : n \in 0..MaxStored}

InitStart ==
    /\ dir_exists \in BOOLEAN
    /\ pdf_dir \in SUBSET Files
    /\ (~dir_exists => pdf_dir = {})
    /\ db \in StoredReports
    /\ next_uuid = Cardinality(db.report_metadata) + 1
    /\ entity = [r \in ReportIds(db) |-> [t \in ChildNames |-> Absent]]
    /\ IdleInit
    /\ fn_arg = NotCalled
    /\ fn_res = NotCalled

\* initialize_data up to the loop, lines 27-52, on such a store.
SpecStart == InitStart /\ [][StartRun]_vars

\* ------------------------------------------------ functions under check
\* A function-level check runs no batch: the directory is missing and the
\* store is empty.
NoBatch ==
    /\ dir_exists = FALSE
    /\ pdf_dir = {}
    /\ db = EmptyDb
    /\ next_uuid = 1
    /\ entity = <<>>
    /\ IdleInit

\* The strings of at most n characters over the alphabet A, as sequences.
Strings(A, n) == UNION {[1..k -> A] : k \in 0..n}

\* ---------------------------------- report_processor.py, numeric coercion
\* The characters of a cell text: signs, the point, digits, and a letter
\* that stands for every other character.
CellChars == {"-", "+", ".", "0", "1", "2", "m"}

Digits == {"0", "1", "2", "3", "4"}

DigitValue(c) ==
    CASE c = "0" -> 0 [] c = "1" -> 1 [] c = "2" -> 2 [] c = "3" -> 3 [] c = "4" -> 4

\* The number of consecutive digits of s from position p on (the greedy \d*).
RECURSIVE DigitRun(_, _)
DigitRun(s, p) ==
    IF p > Len(s) \/ s[p] \notin Digits THEN 0 ELSE 1 + DigitRun(s, p + 1)

\* The length of the match of \d*\.\d+ at position q, 0 when there is none.
\* The greedy \d* can give nothing back: what follows it must be the point.
UnsignedDecimalAt(s, q) ==
    LET n == DigitRun(s, q)
        m == DigitRun(s, q + n + 1)
    IN  IF q + n <= Len(s) /\ s[q + n] = "." /\ m >= 1 THEN n + 1 + m ELSE 0

\* The length of the match of the first alternative, [-+]?\d*\.\d+, at p.
DecimalAt(s, p) ==
    LET q == IF p <= Len(s) /\ s[p] \in {"-", "+"} THEN p + 1 ELSE p
    IN  IF UnsignedDecimalAt(s, q) > 0 THEN (q - p) + UnsignedDecimalAt(s, q) ELSE 0

\* The length of the match of r'[-+]?\d*\.\d+|\d+' at p: the first
\* alternative, and the second, \d+, only when the first fails.
MatchAt(s, p) == IF DecimalAt(s, p) > 0 THEN DecimalAt(s, p) ELSE DigitRun(s, p)

\* re.search(r'[-+]?\d*\.\d+|\d+', value).group(): the match at the
\* leftmost position that has one; <<>> when num_match is None.
re_search(s) ==
    IF \E p \in 1..Len(s) : MatchAt(s, p) > 0
    THEN LET p == CHOOSE x \in 1..Len(s) :
                      MatchAt(s, x) > 0 /\ \A y \in 1..(x - 1) : MatchAt(s, y) = 0
         IN  SubSeq(s, p, p + MatchAt(s, p) - 1)
    ELSE <<>>

RECURSIVE Pow10(_)
Pow10(n) == IF n = 0 THEN 1 ELSE 10 * Pow10(n - 1)

\* The number the digits t[a..b] write, 0 for no digit.
RECURSIVE DigitsValue(_, _, _)
DigitsValue(t, a, b) ==
    IF a > b THEN 0 ELSE 10 * DigitsValue(t, a, b - 1) + DigitValue(t[b])

\* float(t) of a text [-+]?digits[.digits], in units of 10^-MaxLen, so that
\* "1.5", "1.50" and "+1.5" are one value and "-0" is 0.
float(t) ==
    LET q == IF t[1] \in {"-", "+"} THEN 2 ELSE 1
        n == DigitRun(t, q)
        m == IF q + n <= Len(t) THEN Len(t) - (q + n) ELSE 0
        magnitude == DigitsValue(t, q, q + n - 1) * Pow10(MaxLen)
                       + DigitsValue(t, q + n + 1, Len(t)) * Pow10(MaxLen - m)
    IN  IF t[1] = "-" THEN 0 - magnitude ELSE magnitude

\* A table cell is a text or None.
CellValues ==
    {[kind |-> "none"]} \cup {[kind |-> "str", text |-> s] : s \in Strings(CellChars, MaxLen)}

\* Lines 141-147, 195-202 and 264-273: the value stored in a numeric field.
coerce(value) ==
    IF value.kind = "str"
    THEN LET num_match == re_search(value.text)
         IN  IF num_match # <<>> THEN [kind |-> "float", scaled |-> float(num_match)]
             ELSE [kind |-> "null"]
    ELSE [kind |-> "null"]

InitCoerce ==
    /\ NoBatch
    /\ fn_arg \in CellValues
    /\ fn_res = NotCalled

\* The mapping of one cell to a numeric field.
CoerceNumeric ==
    /\ fn_arg \in CellValues
    /\ fn_res = NotCalled
    /\ fn_res' = coerce(fn_arg)
    /\ UNCHANGED <<mainVars, fn_arg>>

SpecCoerce == InitCoerce /\ [][CoerceNumeric]_vars

\* ------------------------- report_processor.py, lines 39-48: file name
\* The characters of a stem: the separator, the hyphen, and a letter that
\* stands for every other character.
StemChars == {"_", "-", "a"}

\* s.split(sep): the pieces of s between the occurrences of sep, empty
\* pieces included; a string without sep is its only piece.
RECURSIVE split(_, _)
split(s, sep) ==
    IF \A k \in 1..Len(s) : s[k] # sep THEN <<s>>
    ELSE LET p == CHOOSE x \in 1..Len(s) :
                      s[x] = sep /\ \A y \in 1..(x - 1) : s[y] # sep
         IN  <<SubSeq(s, 1, p - 1)>> \o split(SubSeq(s, p + 1, Len(s)), sep)

\* sep.join(parts)
RECURSIVE join(_, _)
join(parts, sep) ==
    IF Len(parts) = 0 THEN <<>>
    ELSE IF Len(parts) = 1 THEN parts[1]
    ELSE parts[1] \o <<sep>> \o join(Tail(parts), sep)

\* The literal "Unknown".
Unknown == <<"U", "n", "k", "n", "o", "w", "n">>

\* Three tokens are enough for a report period.
filename_identity_three_tokens(stem) ==
    LET parts == split(stem, "_")
        n == Len(parts)
    IN  IF n >= 3
        THEN [kind |-> "identity",
              wellbore_name |-> join(SubSeq(parts, 1, n - 3), "_"),
              report_period |-> join(SubSeq(parts, n - 2, n), "-")]
        ELSE [kind |-> "identity", wellbore_name |-> stem, report_period |-> Unknown]

\* Lines 39-48: wellbore_name and report_period of a stem.
filename_identity(stem) ==
    LET parts == split(stem, "_")
        n == Len(parts)
    IN  IF n >= 4
        THEN [kind |-> "identity",
              wellbore_name |-> join(SubSeq(parts, 1, n - 3), "_"),
              report_period |-> join(SubSeq(parts, n - 2, n), "-")]
        ELSE [kind |-> "identity", wellbore_name |-> stem, report_period |-> Unknown]

Stems == {[kind |-> "stem", text |-> s] : s \in Strings(StemChars, MaxStem)}

InitFilename ==
    /\ NoBatch
    /\ fn_arg \in Stems
    /\ fn_res = NotCalled

DeriveIdentity ==
    /\ fn_arg \in Stems
    /\ fn_res = NotCalled
    /\ fn_res' = filename_identity(fn_arg.text)
    /\ UNCHANGED <<mainVars, fn_arg>>

SpecFilename == InitFilename /\ [][DeriveIdentity]_vars

\* ---------------------------- pdf_processor.py, parse_key_value_table
\* A cell is None or a text.
None == [kind |-> "none"]

Text(s) == [kind |-> "str", text |-> s]

\* The characters of a label: an upper-case letter, the blank, the hyphen
\* (as '/' and '_' it ends up an underscore), the colon, the opening
\* parenthesis (removed, as the closing one) and the plus sign.
LabelChars == {"A", " ", "-", ":", "(", "+"}

\* The white space s.strip() removes.
Whitespace == {" ", "\n"}

\* s.rstrip(chars) and s.lstrip(chars), chars a set of characters
RECURSIVE rstrip(_, _)
rstrip(s, chars) ==
    IF Len(s) > 0 /\ s[Len(s)] \in chars
    THEN rstrip(SubSeq(s, 1, Len(s) - 1), chars) ELSE s

RECURSIVE lstrip(_, _)
lstrip(s, chars) == IF Len(s) > 0 /\ s[1] \in chars THEN lstrip(Tail(s), chars) ELSE s

\* s.strip() for chars the white space, s.strip('_') for chars {"_"}
strip(s, chars) == lstrip(rstrip(s, chars), chars)

\* s.replace(old, new), old a character and new a string
RECURSIVE replace(_, _, _)
replace(s, old, new) ==
    IF Len(s) = 0 THEN <<>>
    ELSE (IF s[1] = old THEN new ELSE <<s[1]>>) \o replace(Tail(s), old, new)

\* The upper-case letters of the texts, and their lower case.
Lower == ("A" :> "a") @@ ("S" :> "s") @@ ("E" :> "e") @@ ("R" :> "r") @@ ("N" :> "n") @@ ("U" :> "u")

\* s.lower()
lower(s) == [k \in 1..Len(s) |-> IF s[k] \in DOMAIN Lower THEN Lower[s[k]] ELSE s[k]]

\* re.sub(r'_+', '_', s): an underscore that follows an underscore goes.
RECURSIVE collapse(_)
collapse(s) ==
    IF Len(s) <= 1 THEN s
    ELSE IF s[1] = "_" /\ s[2] = "_" THEN collapse(Tail(s))
    ELSE <<s[1]>> \o collapse(Tail(s))

\* Lines 275-285: the normalized key of a stripped label.
normalized_key(key_str) ==
    strip(collapse(
        replace(replace(replace(replace(replace(replace(replace(lower(key_str),
            " ", <<"_">>), "(", <<>>), ")", <<>>), "/", <<"_">>),
            "+", <<"p", "l", "u", "s">>), "-", <<"_">>), ":", <<"_">>)), {"_"})

\* The cell of the second column, null or not.
second_cell(row, k) == IF k > Len(row) THEN None ELSE row[k]

\* Lines 266-270: the first cell after the first that is not null, or None.
RECURSIVE first_value(_, _)
first_value(row, k) ==
    IF k > Len(row) THEN None
    ELSE IF row[k] # None THEN row[k]
    ELSE first_value(row, k + 1)

\* Lines 259-288: the dictionary after the first n rows, as the set of its
\* (key, value) items; result[normalized_key] = value replaces an item
\* with the same key.
RECURSIVE key_value_items(_, _)
key_value_items(df, n) ==
    IF n = 0 THEN {}
    ELSE LET result == key_value_items(df, n - 1)
             row == df[n]
         IN  IF Len(row) < 2 \/ row[1] = None THEN result
             ELSE LET key_str == strip(rstrip(row[1].text, {":"}), Whitespace)
                      key == normalized_key(key_str)
                  IN  IF key_str = <<>> THEN result
                      ELSE {item \in result : item[1] # key}
                              \cup {<<key, first_value(row, 2)>>}

\* parse_key_value_table(df), df the sequence of the rows of the table
parse_key_value_table(df) ==
    [kind |-> "dict", items |-> key_value_items(df, Len(df))]

\* The rows of a table of one label column and two or no value columns,
\* the labels of at most n characters.
KeyValueRows(n) ==
    LET labels == {None} \cup {Text(s) : s \in Strings(LabelChars, n)}
    IN  {<<k>> : k \in labels}
        \cup {<<k, a, b>> : k \in labels, a \in {None, Text(<<"x">>)},
                            b \in {None, Text(<<"y">>)}}

KeyValueTables ==
    {<<>>} \cup {<<r>> : r \in KeyValueRows(MaxLabel)}
           \cup {df \in KeyValueRows(MaxLabel2) \X KeyValueRows(MaxLabel2) :
                     Len(df[1]) = Len(df[2])}

InitKeyValue ==
    /\ NoBatch
    /\ fn_arg \in {[kind |-> "table", rows |-> df] : df \in KeyValueTables}
    /\ fn_res = NotCalled

ParseKeyValue ==
    /\ fn_arg.kind = "table"
    /\ fn_res = NotCalled
    /\ fn_res' = parse_key_value_table(fn_arg.rows)
    /\ UNCHANGED <<mainVars, fn_arg>>

SpecKeyValue == InitKeyValue /\ [][ParseKeyValue]_vars

\* ------------------------------- pdf_processor.py, parse_tabular_table
\* char.isalpha()
Letters ==
    DOMAIN Lower \cup {"a", "d", "e", "h", "i", "k", "m", "n", "o", "r", "s", "t", "u"}

\* sub in s
Contains(s, sub) ==
    \E p \in 1..(Len(s) - Len(sub) + 1) : SubSeq(s, p, p + Len(sub) - 1) = sub

\* .astype(str) and str(col): the text of a cell, "None" for a null one.
astype_str(cell) == IF cell = None THEN <<"N", "o", "n", "e">> ELSE cell.text

\* Lines 309-310: the column labels are integers or digit strings.
is_generic_index(columns) ==
    \A k \in 1..Len(columns) :
        /\ Len(astype_str(columns[k])) > 0
        /\ \A j \in 1..Len(astype_str(columns[k])) : astype_str(columns[k])[j] \in Digits

\* Lines 312-317: the first row is taken as the header.
promotes_first_row(df) ==
    /\ is_generic_index(df.columns)
    /\ Len(df.rows) > 0
    /\ LET first_row == [k \in 1..Len(df.rows[1]) |-> astype_str(df.rows[1][k])]
           text_cells == {k \in 1..Len(first_row) :
                             \E j \in 1..Len(first_row[k]) : first_row[k][j] \in Letters}
       IN  Cardinality(text_cells) >= 2

\* Lines 324-339: the normalized name of a column.
normalized_column(col) ==
    LET col_str == lower(col)
    IN  IF Contains(col_str, <<"u", "n", "n", "a", "m", "e", "d">>) THEN col_str
        ELSE collapse(strip(
                 replace(replace(replace(replace(replace(replace(col_str,
                     "\n", <<"_">>), " ", <<"_">>), "/", <<"_">>), "-", <<"_">>),
                     "(", <<>>), ")", <<>>), {"_"}))

\* parse_tabular_table(df): the records, as the normalized column names and
\* the rows they key; the record of a row is the dictionary of its cells.
parse_tabular_table(df) ==
    IF df.rows = <<>> THEN [columns |-> <<>>, rows |-> <<>>]
    ELSE IF promotes_first_row(df)
    THEN [columns |-> [k \in 1..Len(df.columns) |->
                          normalized_column(astype_str(df.rows[1][k]))],
          rows |-> Tail(df.rows)]
    ELSE [columns |-> [k \in 1..Len(df.columns) |->
                          normalized_column(astype_str(df.columns[k]))],
          rows |-> df.rows]

\* ------------------- report_processor.py, _create_operations_from_table
\* Lines 182-189 and 205: the value of a field of the operation record of
\* one row: that of the first key of the record that contains col_key (the
\* record of a row keeps, of columns with one name, the last cell), None
\* when no key does.
field_value(columns, row, col_key) ==
    IF \E k \in 1..Len(columns) : Contains(columns[k], col_key)
    THEN LET match == CHOOSE k \in 1..Len(columns) :
                          /\ Contains(columns[k], col_key)
                          /\ \A j \in 1..(k - 1) : ~Contains(columns[j], col_key)
             last == CHOOSE k \in 1..Len(columns) :
                          /\ columns[k] = columns[match]
                          /\ \A j \in (k + 1)..Len(columns) : columns[j] # columns[match]
         IN  row[last]
    ELSE None

\* Lines 174-209: the operation records of a table; a record with no
\* start_time, end_time or remark is dropped (line 207).
create_operations_from_table(df) ==
    LET records == parse_tabular_table(df)
        op(row) == [start_time |-> field_value(records.columns, row, <<"s", "t", "a", "r", "t", "_", "t", "i", "m", "e">>),
                    end_time |-> field_value(records.columns, row, <<"e", "n", "d", "_", "t", "i", "m", "e">>),
                    remark |-> field_value(records.columns, row, <<"r", "e", "m", "a", "r", "k">>)]
        truthy(value) == value # None /\ value.text # <<>>
    IN  SelectSeq([n \in 1..Len(records.rows) |-> op(records.rows[n])],
                  LAMBDA o : truthy(o.start_time) \/ truthy(o.end_time) \/ truthy(o.remark))

\* The tables of three columns: the labels placeholders or names, a first
\* row that is a header or data, and at most one more row.
TabularTables ==
    LET headers == {<<Text(<<"S", "t", "a", "r", "t">>), Text(<<"E", "n", "d">>), Text(<<"R", "e", "m", "a", "r", "k">>)>>,
                    <<Text(<<"S", "t", "a", "r", "t", " ", "t", "i", "m", "e">>), Text(<<"E", "n", "d", " ", "t", "i", "m", "e">>), Text(<<"R", "e", "m", "a", "r", "k">>)>>}
        cells == {None, Text(<<"1", "0">>), Text(<<"r", "i", "h">>)}
        data == {<<a, b, c>> : a \in cells, b \in cells, c \in cells}
        labels == headers \cup {<<Text(<<"0">>), Text(<<"1">>), Text(<<"2">>)>>}
    IN  [columns : labels,
         rows : {<<>>} \cup {<<r>> : r \in headers \cup data}
                       \cup ((headers \cup data) \X data)]

InitTabular ==
    /\ NoBatch
    /\ fn_arg \in {[kind |-> "frame", df |-> df] : df \in TabularTables}
    /\ fn_res = NotCalled

ParseTabular ==
    /\ fn_arg.kind = "frame"
    /\ fn_res = NotCalled
    /\ fn_res' = [kind |-> "operations",
                  records |-> parse_tabular_table(fn_arg.df),
                  operations |-> create_operations_from_table(fn_arg.df)]
    /\ UNCHANGED <<mainVars, fn_arg>>

SpecTabular == InitTabular /\ [][ParseTabular]_vars

\* --------------------------------------------------------- termination
\* The calls of initialize_data on a directory that stays as it is.
NextBatch ==
    \/ StartRun
    \/ Visit
    \/ Finish
    \/ GetResult
    \/ Timeout
    \/ Extract
    \/ CreateMetadata
    \/ SaveMetadata
    \/ MapChild
    \/ SaveChild

\* The controller is sequential code that runs on: the loop takes its next
\* step, and result.get returns or raises within timeout_seconds.  Nothing
\* is assumed of the worker, which may hang in any of its steps, nor of
\* the caller, who may never call again.
SpecLive ==
    /\ Init
    /\ [][NextBatch]_vars
    /\ WF_vars(Visit)
    /\ WF_vars(Finish)
    /\ WF_vars(GetResult \/ Timeout)

\* --------------------------------- pdf_processor.py, is_key_value_table
\* Lines 358-374.  colon_count / len(first_col) > 0.3 is 10 * colon_count >
\* 3 * len(first_col); first_col is the first column without its nulls.
is_key_value_table(df) ==
    LET has_unnamed == \E k \in 1..Len(df.columns) :
                           Contains(lower(astype_str(df.columns[k])), <<"u", "n", "n", "a", "m", "e", "d">>)
        first_col == SelectSeq([n \in 1..Len(df.rows) |-> df.rows[n][1]],
                               LAMBDA x : x # None)
        colons == SelectSeq(first_col,
                            LAMBDA x : /\ strip(x.text, Whitespace) # <<>>
                                       /\ strip(x.text, Whitespace)[Len(strip(x.text, Whitespace))] = ":")
    IN  IF Len(df.columns) > 4 THEN FALSE
        ELSE IF has_unnamed THEN TRUE
        ELSE Len(first_col) > 0 /\ 10 * Len(colons) > 3 * Len(first_col)

\* The label of column k: the integer camelot gives it, the "Unnamed: n" of
\* pandas, a name, or a name for the first column and "Unnamed: n" after it.
ColumnLabel(labelling, k) ==
    LET digit == <<"0", "1", "2", "3", "4">>[((k - 1) % 5) + 1]
    IN  CASE labelling = "integer" -> Text(<<digit>>)
          [] labelling = "unnamed" -> Text(<<"U", "n", "n", "a", "m", "e", "d", ":", " ">> \o <<digit>>)
          [] labelling = "named" -> Text(<<"S", "t", "a", "r", "t">> \o <<digit>>)
          [] OTHER -> IF k = 1 THEN Text(<<"S", "t", "a", "r", "t">>)
                      ELSE Text(<<"U", "n", "n", "a", "m", "e", "d", ":", " ">> \o <<digit>>)

\* The tables to classify; the first cell of a row is null, a label with a
\* colon (followed by a blank or not) or a text without, the others a text.
ClassifyTables ==
    LET first_cells == {None, Text(<<"A", ":">>), Text(<<"A", ":", " ">>), Text(<<"A">>)}
    IN  {[columns |-> [k \in 1..n |-> ColumnLabel(labelling, k)],
          rows |-> [r \in 1..Len(col) |->
                       [k \in 1..n |-> IF k = 1 THEN col[r] ELSE Text(<<"x">>)]]] :
            n \in 1..MaxCols,
            labelling \in {"integer", "unnamed", "named", "mixed"},
            col \in Strings(first_cells, MaxRows)}

InitClassify ==
    /\ NoBatch
    /\ fn_arg \in {[kind |-> "classify", df |-> df] : df \in ClassifyTables}
    /\ fn_res = NotCalled

Classify ==
    /\ fn_arg.kind = "classify"
    /\ fn_res = NotCalled
    /\ fn_res' = [kind |-> "bool", value |-> is_key_value_table(fn_arg.df)]
    /\ UNCHANGED <<mainVars, fn_arg>>

SpecClassify == InitClassify /\ [][Classify]_vars

\* ------------------ report_processor.py: the mappers a table goes through
\* key.startswith(prefix)
startswith(s, prefix) == Len(s) >= Len(prefix) /\ SubSeq(s, 1, Len(prefix)) = prefix

\* The keys of the tables of a document: the tables of the common region
\* and the normalized names of the sections.
TableKeys ==
    {<<"c", "o", "m", "m", "o", "n", "_", "1">>,
     <<"o", "p", "e", "r", "a", "t", "i", "o", "n", "s">>,
     <<"d", "r", "i", "l", "l", "i", "n", "g", "_", "f", "l", "u", "i", "d">>,
     <<"g", "a", "s", "_", "r", "e", "a", "d", "i", "n", "g", "_", "i", "n", "f", "o", "r", "m", "a", "t", "i", "o", "n">>,
     <<"s", "u", "r", "v", "e", "y", "_", "s", "t", "a", "t", "i", "o", "n">>}

\* The mappers that process the table `key` of a document:
\* _create_metadata_from_tables merges it into all_data when line 95 says
\* so, and process_pdf_to_database maps it to child records by its key
\* (lines 55, 63 and 71).
mapper_paths(key, df) ==
    (IF startswith(key, <<"c", "o", "m", "m", "o", "n", "_">>) \/ is_key_value_table(df)
       THEN {"metadata"} ELSE {})
    \cup (IF key = <<"o", "p", "e", "r", "a", "t", "i", "o", "n", "s">> THEN {"operations"} ELSE {})
    \cup (IF key = <<"d", "r", "i", "l", "l", "i", "n", "g", "_", "f", "l", "u", "i", "d">> THEN {"drilling_fluid"} ELSE {})
    \cup (IF key = <<"g", "a", "s", "_", "r", "e", "a", "d", "i", "n", "g", "_", "i", "n", "f", "o", "r", "m", "a", "t", "i", "o", "n">> THEN {"gas_readings"} ELSE {})

InitPaths ==
    /\ NoBatch
    /\ fn_arg \in {[kind |-> "extracted", key |-> key, df |-> df] :
                       key \in TableKeys, df \in ClassifyTables}
    /\ fn_res = NotCalled

MapTable ==
    /\ fn_arg.kind = "extracted"
    /\ fn_res = NotCalled
    /\ fn_res' = [kind |-> "paths", paths |-> mapper_paths(fn_arg.key, fn_arg.df)]
    /\ UNCHANGED <<mainVars, fn_arg>>

SpecPaths == InitPaths /\ [][MapTable]_vars

\* -------------------------- report_processor.py: field resolution
\* The key of the mapping that gives the field `canonical` its value: in the
\* metadata mapper the canonical name itself when it is a key (line 126),
\* and in every mapper the first key that contains the canonical name
\* (lines 129-132, 185-189, 254-258); no key otherwise.
match_key(mapper, keys, canonical) ==
    IF mapper = "metadata" /\ \E k \in 1..Len(keys) : keys[k] = canonical
    THEN [found |-> TRUE, key |-> canonical]
    ELSE IF \E k \in 1..Len(keys) : Contains(keys[k], canonical)
    THEN [found |-> TRUE,
          key |-> keys[CHOOSE k \in 1..Len(keys) :
                          /\ Contains(keys[k], canonical)
                          /\ \A j \in 1..(k - 1) : ~Contains(keys[j], canonical)]]
    ELSE [found |-> FALSE, key |-> <<>>]

\* Up to two distinct keys, in the order of the dictionary, and a canonical
\* name, which is not empty.
InitResolve ==
    /\ NoBatch
    /\ fn_arg \in {[kind |-> "resolve", mapper |-> m, keys |-> ks, canonical |-> c] :
                       m \in {"metadata", "operations", "gas_readings"},
                       ks \in {s \in Strings(Strings({"a", "b"}, MaxKey), 2) :
                                   Len(s) = 2 => s[1] # s[2]},
                       c \in Strings({"a", "b"}, MaxKey) \ {<<>>}}
    /\ fn_res = NotCalled

ResolveField ==
    /\ fn_arg.kind = "resolve"
    /\ fn_res = NotCalled
    /\ fn_res' = match_key(fn_arg.mapper, fn_arg.keys, fn_arg.canonical)
    /\ UNCHANGED <<mainVars, fn_arg>>

SpecResolve == InitResolve /\ [][ResolveField]_vars

\* ------------------ pdf_processor.py: one label through both normalizations
\* The label as the first cell of a key-value row (lines 272-288; no key
\* when nothing is left of the label at line 276) and as the name of a
\* column (lines 324-339).
normalize_both(label) ==
    LET key_str == strip(rstrip(label, {":"}), Whitespace)
    IN  [kind |-> "names",
         has_key |-> key_str # <<>>,
         key |-> normalized_key(key_str),
         column |-> normalized_column(label)]

InitNormalize ==
    /\ NoBatch
    /\ fn_arg \in {[kind |-> "label", text |-> s] :
                       s \in Strings(LabelChars \cup {"\n", "_"}, MaxLabel)}
    /\ fn_res = NotCalled

NormalizeLabel ==
    /\ fn_arg.kind = "label"
    /\ fn_res = NotCalled
    /\ fn_res' = normalize_both(fn_arg.text)
    /\ UNCHANGED <<mainVars, fn_arg>>

SpecNormalize == InitNormalize /\ [][NormalizeLabel]_vars

\* ----------- pdf_processor.py and report_processor.py: the metadata merge
\* re.sub(r'\([^)]*\)', '', text): what stands between a '(' and the next
\* ')' goes, parentheses included.
RECURSIVE remove_parenthesized(_)
remove_parenthesized(s) ==
    IF \E p \in 1..Len(s) : s[p] = "(" /\ \E c \in (p + 1)..Len(s) : s[c] = ")"
    THEN LET p == CHOOSE x \in 1..Len(s) : s[x] = "(" /\ \A y \in 1..(x - 1) : s[y] # "("
             c == CHOOSE x \in (p + 1)..Len(s) :
                      s[x] = ")" /\ \A y \in (p + 1)..(x - 1) : s[y] # ")"
         IN  SubSeq(s, 1, p - 1) \o remove_parenthesized(SubSeq(s, c + 1, Len(s)))
    ELSE s

\* re.sub(r'[-\s]+', '_', name)
RECURSIVE hyphens_and_spaces(_)
hyphens_and_spaces(s) ==
    IF Len(s) = 0 THEN <<>>
    ELSE IF s[1] \in Whitespace \cup {"-"}
    THEN <<"_">> \o hyphens_and_spaces(lstrip(s, Whitespace \cup {"-"}))
    ELSE <<s[1]>> \o hyphens_and_spaces(Tail(s))

\* _normalize_section_name(text), lines 391-400; r'[^\w\s-]' takes out the
\* punctuation.
normalize_section_name(text) ==
    hyphens_and_spaces(
        SelectSeq(strip(lower(remove_parenthesized(text)), Whitespace),
                  LAMBDA c : c \notin {"(", ")", ":", "+", "/"}))

\* tables_dict[name] = table: a new key goes to the end of the dictionary,
\* a key that is there keeps its place and gets the new table.
dict_set(d, name, table) ==
    IF \E k \in 1..Len(d) : d[k].name = name
    THEN [k \in 1..Len(d) |-> IF d[k].name = name
                               THEN [name |-> name, table |-> table] ELSE d[k]]
    ELSE Append(d, [name |-> name, table |-> table])

\* extract_tables_by_sections, lines 123-182, after the first n sections:
\* the table of the common region, then the first table of each section.
RECURSIVE tables_by_sections(_, _, _)
tables_by_sections(common, sections, n) ==
    IF n = 0
    THEN IF common.present
         THEN <<[name |-> <<"c", "o", "m", "m", "o", "n", "_", "1">>, table |-> common.table]>> ELSE <<>>
    ELSE dict_set(tables_by_sections(common, sections, n - 1),
                  normalize_section_name(sections[n].text), sections[n].table)

\* _create_metadata_from_tables, lines 94-97: all_data.update(data) table
\* by table in the order of the dictionary; the value of one key is that
\* of the last table that defines it (the number of the table, 0 if none).
merged_value(tables) ==
    IF \E k \in 1..Len(tables) : tables[k].table.defines
    THEN tables[CHOOSE k \in 1..Len(tables) :
                    /\ tables[k].table.defines
                    /\ \A j \in (k + 1)..Len(tables) : ~tables[j].table.defines].table.number
    ELSE 0

\* The header texts of the sections of a document, distinct (lines 100-104).
SectionTexts == {<<"A", "r", "e", "a">>, <<"A", "R", "E", "A">>, <<"A", "r", "e", "a", " ", "(", "s", "e", "a", ")">>, <<"S", "e", "a", "s">>}

\* A document: a common region with a table or without, and up to
\* MaxSections sections in (page, offset) order, each with a key-value
\* table that defines the key or does not; the tables are numbered in the
\* order of extraction.
Extractions ==
    {[kind |-> "extraction",
      common |-> [present |-> c[1], table |-> [number |-> 1, defines |-> c[2]]],
      sections |-> [j \in 1..Len(texts) |->
                       [text |-> texts[j],
                        table |-> [number |-> j + 1, defines |-> defs[j]]]]] :
        c \in {<<FALSE, FALSE>>, <<TRUE, FALSE>>, <<TRUE, TRUE>>},
        texts \in {s \in Strings(SectionTexts, MaxSections) :
                       \A a, b \in 1..Len(s) : a # b => s[a] # s[b]},
        defs \in [1..MaxSections -> BOOLEAN]}

InitMerge ==
    /\ NoBatch
    /\ fn_arg \in Extractions
    /\ fn_res = NotCalled

MergeMetadata ==
    /\ fn_arg.kind = "extraction"
    /\ fn_res = NotCalled
    /\ fn_res' = [kind |-> "merged",
                  value |-> merged_value(tables_by_sections(fn_arg.common, fn_arg.sections,
                                                            Len(fn_arg.sections)))]
    /\ UNCHANGED <<mainVars, fn_arg>>

SpecMerge == InitMerge /\ [][MergeMetadata]_vars

\* ------------- report_processor.py: drilling fluid and gas reading records
\* _create_drilling_fluid_from_table, lines 212-229: one record per row of
\* at least two cells whose first cell is a text of at least two characters.
create_drilling_fluid_from_table(df) ==
    LET kept == SelectSeq(df.rows,
                          LAMBDA row : /\ Len(row) >= 2
                                       /\ row[1] # None
                                       /\ Len(row[1].text) >= 2)
    IN  [n \in 1..Len(kept) |->
            [parameter_name |-> kept[n][1],
             value |-> kept[n][2],
             unit |-> IF Len(kept[n]) > 2 THEN kept[n][3] ELSE None]]

\* Two of the twelve numeric fields of a gas reading, lines 240-253.
GasFields == {<<"d", "e", "p", "t", "h", "_", "m">>, <<"c", "1">>}

\* _create_gas_readings_from_table, lines 231-278: the numeric fields of
\* each record of the table; a row with no numeric value is dropped.
create_gas_readings_from_table(df) ==
    LET rows == parse_tabular_table(df)
        record(row) == [f \in GasFields |-> coerce(field_value(rows.columns, row, f))]
    IN  SelectSeq([n \in 1..Len(rows.rows) |-> record(rows.rows[n])],
                  LAMBDA r : \E f \in GasFields : r[f].kind = "float")

\* Drilling fluid tables of one to three columns and gas reading tables
\* with the columns "depth m" and "c1", of at most two rows.
ChildTableFrames ==
    LET names == {None, Text(<<>>), Text(<<"a">>), Text(<<"a", "b">>)}
        values == {None, Text(<<"x">>)}
        numbers == {None, Text(<<>>), Text(<<"1", ".", "2">>), Text(<<"m">>)}
        fluid_rows(n) == {row \in [1..n -> names \cup values] :
                             row[1] \in names /\ \A k \in 2..n : row[k] \in values}
        gas_rows == [1..2 -> numbers]
    IN  UNION {{[mapper |-> "drilling_fluid",
                 df |-> [columns |-> [k \in 1..n |-> ColumnLabel("integer", k)],
                         rows |-> rows]] : rows \in Strings(fluid_rows(n), 2)} : n \in 1..3}
        \cup {[mapper |-> "gas_readings",
                df |-> [columns |-> <<Text(<<"d", "e", "p", "t", "h", " ", "m">>), Text(<<"c", "1">>)>>,
                        rows |-> rows]] : rows \in Strings(gas_rows, 2)}
        \cup {[mapper |-> "operations", df |-> df] : df \in TabularTables}

InitAssemble ==
    /\ NoBatch
    /\ fn_arg \in {[kind |-> "child_table", mapper |-> t.mapper, df |-> t.df] :
                       t \in ChildTableFrames}
    /\ fn_res = NotCalled

\* The mapper of process_pdf_to_database for the table, lines 55-77.
AssembleRecords ==
    /\ fn_arg.kind = "child_table"
    /\ fn_res = NotCalled
    /\ fn_res' = [kind |-> "records",
                  records |-> CASE fn_arg.mapper = "operations" ->
                                      create_operations_from_table(fn_arg.df)
                                [] fn_arg.mapper = "drilling_fluid" ->
                                      create_drilling_fluid_from_table(fn_arg.df)
                                [] fn_arg.mapper = "gas_readings" ->
                                      create_gas_readings_from_table(fn_arg.df)]
    /\ UNCHANGED <<mainVars, fn_arg>>

SpecAssemble == InitAssemble /\ [][AssembleRecords]_vars

\* ------------------------------ pdf_processor.py: section detection
MaxPages == 2

\* What the libraries do on the pages of a document: the step of a page
\* that raises, if any (lines 38-57), and for each gray box of header size
\* of the page, from top to bottom, the text found in it or the call that
\* raises (lines 75-76).
PageOutcomes ==
    LET boxes == {[outcome |-> "text", text |-> t] : t \in {"A", "B"}}
                     \cup {[outcome |-> o] : o \in {"crop", "extract_text"}}
        pages == [raises : {"none", "to_image", "cvtColor", "findContours"},
                  boxes : Strings(boxes, 2)]
    IN  Strings(pages, MaxPages)

\* extract_sections, lines 27-107. The steps of a page up to the contour
\* search are outside any try, so an exception of theirs leaves the
\* function; the try of lines 74-98 is around the crop and the text
\* extraction of one box. The sections are then deduplicated by text and
\* sorted by page and position (lines 100-107).
extract_sections(pages) ==
    LET of_page(p) ==
            LET found == {k \in 1..Len(pages[p].boxes) :
                              pages[p].boxes[k].outcome = "text"}
                nth[n \in 0..Len(pages[p].boxes)] ==
                    IF n = 0 THEN <<>>
                    ELSE IF n \in found
                         THEN Append(nth[n - 1],
                                     [page |-> p, text |-> pages[p].boxes[n].text,
                                      y_position |-> n])
                         ELSE nth[n - 1]
            IN  nth[Len(pages[p].boxes)]
        sections[p \in 0..Len(pages)] ==
            IF p = 0 THEN <<>> ELSE sections[p - 1] \o of_page(p)
        all == sections[Len(pages)]
        unique_sections[n \in 0..Len(all)] ==
            IF n = 0 THEN <<>>
            ELSE IF \E j \in 1..Len(unique_sections[n - 1]) :
                        unique_sections[n - 1][j].text = all[n].text
                 THEN unique_sections[n - 1]
                 ELSE Append(unique_sections[n - 1], all[n])
    IN  IF \E p \in 1..Len(pages) : pages[p].raises # "none"
        THEN [kind |-> "raised"]
        ELSE [kind |-> "sections", sections |-> unique_sections[Len(all)]]

InitSections ==
    /\ NoBatch
    /\ fn_arg \in {[kind |-> "pages", pages |-> pages] : pages \in PageOutcomes}
    /\ fn_res = NotCalled

ExtractSections ==
    /\ fn_arg.kind = "pages"
    /\ fn_res = NotCalled
    /\ fn_res' = extract_sections(fn_arg.pages)
    /\ UNCHANGED <<mainVars, fn_arg>>

SpecSections == InitSections /\ [][ExtractSections]_vars

\* ------------------------------ pdf_processor.py: table regions
\* The height of the pages, in points; the offsets are multiples of 5.
PageHeight == 60

\* Lists of at most MaxSections sections of pages 1 and 2 as
\* extract_sections returns them: sorted by page and y_position
\* (line 106), the offset measured from the top of the page.
SectionLists ==
    LET offsets == {y \in 0..PageHeight : y % 5 = 0}
        section == [page : 1..2, y_position : offsets, page_height : {PageHeight}]
    IN  {s \in Strings(section, MaxSections) :
            \A k \in 1..(Len(s) - 1) :
                \/ s[k].page < s[k + 1].page
                \/ s[k].page = s[k + 1].page /\ s[k].y_position <= s[k + 1].y_position}

\* extract_tables_by_sections, lines 126-165: the table_regions handed to
\* camelot.read_pdf, "0,y1,page_width,y2" with y1 the top and y2 the
\* bottom of the window measured from the bottom of the page: the common
\* region above the first section of page 1, then one window per section.
table_regions(sections) ==
    LET page_height == PageHeight
        common == IF sections # <<>> /\ sections[1].page = 1
                  THEN <<[pages |-> 1, page_height |-> page_height,
                          y1 |-> page_height,
                          y2 |-> page_height - sections[1].y_position + 10]>>
                  ELSE <<>>
        next_y(n) == IF n + 1 <= Len(sections) /\ sections[n + 1].page = sections[n].page
                     THEN sections[n + 1].y_position
                     ELSE sections[n].page_height
    IN  common \o [n \in 1..Len(sections) |->
                      [pages |-> sections[n].page,
                       page_height |-> sections[n].page_height,
                       y1 |-> sections[n].page_height - sections[n].y_position - 20,
                       y2 |-> sections[n].page_height - next_y(n) + 10]]

InitRegions ==
    /\ NoBatch
    /\ fn_arg \in {[kind |-> "sections", sections |-> s] : s \in SectionLists}
    /\ fn_res = NotCalled

ExtractTablesBySections ==
    /\ fn_arg.kind = "sections"
    /\ fn_res = NotCalled
    /\ fn_res' = [kind |-> "regions", regions |-> table_regions(fn_arg.sections)]
    /\ UNCHANGED <<mainVars, fn_arg>>

SpecRegions == InitRegions /\ [][ExtractTablesBySections]_vars

TypeOK ==
    /\ pc \in {"idle", "loop", "wait"}
    /\ w.pc \in {"none", "extract", "map_meta", "save_meta", "map_child",
                 "save_child", "done", "failed"}
    /\ (pc = "wait") = (w.pc # "none")
    /\ i \in 0..MaxFiles
    /\ run \in 0..MaxRuns

\* ======================================================================
\* Properties
\* ======================================================================
Terminal == {"Committed", "Failed", "TimedOut", "Skipped"}

\* initialize_data has returned the summary of a batch it worked through.
BatchReturned == pc = "idle" /\ message.kind = "batch"

\* The rows report rid must have in child table t once it is persisted.
ExpectedRows(t, rid) ==
    IF entity[rid][t] = Absent THEN {}
    ELSE {[report_id |-> rid, n |-> j] : j \in 1..entity[rid][t]}

\* C1: all-or-nothing per document: once a document is recorded as failed
\* because its worker returned an internal error (at extraction, mapping,
\* assembly or one of the save_* calls), the store holds no report_metadata,
\* operations, drilling_fluid or gas_readings row of that document.
C1_AllOrNothing ==
    \A f \in Files :
        (doc_state[f] = "Failed" /\ doc_error[f] \in {"extraction", "mapping", "persistence"})
            => ~HasRows(db, doc_rid[f])

\* C2: a document whose worker does not return in time is counted as skipped
\* (never as failed or processed), and the store holds no row of it, whatever
\* point the worker had reached when it was terminated.
C2_TimedOutLeavesNoRow ==
    /\ skipped_count = Cardinality({f \in Files : doc_state[f] \in {"Skipped", "TimedOut"}})
    /\ processed_count = Cardinality({f \in Files : doc_state[f] = "Committed"})
    /\ \A f \in Files : doc_state[f] = "TimedOut" => ~HasRows(db, doc_rid[f])

\* C3: idempotence: a run over the directory and the store exactly as the
\* previous run left them processes no document, inserts no row and changes
\* no row, whatever the previous run did with its documents.
C3_Idempotent ==
    rerun => (processed_count = 0 /\ db = db0)

\* C4: persisting a document is one atomic step: no state of the store has
\* the report_metadata row of a report without every operations,
\* drilling_fluid and gas_readings row of its entity set.
C4_AtomicPersist ==
    \A m \in db.report_metadata :
        \A t \in ChildNames :
            RowsOf(db, t, m.report_id) = ExpectedRows(t, m.report_id)

\* C5: delete_report(id) on a report of the store removes its metadata row
\* and every child row with that report_id, returns True and leaves the rows
\* of every other report as they are; on an id that is not in the store it
\* returns False and changes nothing.
C5_DeleteReport ==
    [][ n_deletes' = n_deletes + 1 =>
          LET id == last_delete'.id
          IN IF id \in ReportIds(db)
             THEN /\ last_delete'.ret = TRUE
                  /\ ~HasRows(db', id)
                  /\ db'.report_metadata = {m \in db.report_metadata : m.report_id # id}
                  /\ \A t \in ChildNames : db'[t] = db[t] \ RowsOf(db, t, id)
             ELSE /\ last_delete'.ret = FALSE
                  /\ db' = db ]_vars

\* A report with child rows has been deleted while another report with child
\* rows is in the store.
C5_Witness ==
    /\ n_deletes >= 1
    /\ last_delete.ret
    /\ last_delete.had_children
    /\ \E m \in db.report_metadata : ChildRows(db, m.report_id) # {}

\* C6: referential integrity: in every state of the store, every operations,
\* drilling_fluid and gas_readings row has the report_id of a report_metadata
\* row of the store.
C6_ReferentialIntegrity ==
    \A t \in ChildNames : \A r \in db[t] : r.report_id \in ReportIds(db)

\* Child rows are in the store after a report was deleted and a document of
\* the run failed or timed out.
C6_Witness ==
    /\ last_delete.ret
    /\ \E f \in Files : doc_state[f] \in {"Failed", "TimedOut"}
    /\ \E t \in ChildNames : db[t] # {}

\* The failed count the returned summary carries (it carries none: 0).
ReportedFailed == IF "failed" \in DOMAIN message THEN message.failed ELSE 0

\* C7: batch accounting: a run that works through the batch returns success
\* with a summary in which every discovered document is counted exactly once:
\* processed + skipped + failed is the number of discovered documents.
C7_BatchAccounting ==
    BatchReturned =>
        /\ status = "success"
        /\ message.processed + message.skipped + ReportedFailed = total_files

\* C8: initialize_data returns error when the directory does not exist and
\* warning when it exists without documents; in both cases no worker is
\* started, no progress notification is emitted and the store is unchanged.
C8_ErrorAndWarning ==
    [][ run' = run + 1 =>
          /\ (status' = "error") = ~dir_exists
          /\ (status' = "warning") = (dir_exists /\ pdf_dir = {})
          /\ (~dir_exists \/ pdf_dir = {}) =>
                /\ pc' = "idle"
                /\ w' = NoWorker
                /\ \A f \in Files : handed'[f] = 0
                /\ progress' = <<>>
                /\ db' = db ]_vars

\* A second run returned warning over a directory emptied after the first
\* run had stored a report.
C8_Witness ==
    /\ run = 2
    /\ pc = "idle"
    /\ status = "warning"
    /\ db.report_metadata # {}

\* C9: fault isolation: an error or a timeout of a worker does not stop the
\* batch: a run that reaches the loop visits every discovered document, in
\* every case, and hands each document that is not yet in the store to a
\* worker exactly once.
C9_FaultIsolation ==
    /\ \A f \in Files : handed[f] <= 1
    /\ BatchReturned =>
          /\ Len(progress) = total_files
          /\ \A k \in 1..total_files :
                LET f == pdf_files[k]
                IN /\ progress[k][3] = f
                   /\ doc_state[f] \in Terminal
                   /\ f \notin FileNames(db0) => handed[f] = 1

\* A batch is over in which the first document failed or timed out and the
\* second one was committed.
C9_Witness ==
    /\ BatchReturned
    /\ total_files = 2
    /\ doc_state[pdf_files[1]] \in {"Failed", "TimedOut"}
    /\ doc_state[pdf_files[2]] = "Committed"

\* C10: a persistence failure (an error raised by a save_* call) propagates
\* out of the run: no run returns success after a worker hit one.
C10_PersistenceFailurePropagates ==
    (pc = "idle" /\ status = "success") =>
        \A f \in Files : doc_error[f] # "persistence"

\* C11: initialize_data returns "All pdfs are already added" exactly when the
\* size of the set of already ingested file names equals the number of
\* discovered documents, and enters the loop otherwise.  The set is the one
\* the call loaded: existing_reports_filenames when the call goes on (empty
\* after a failed read), the file names of the store when it returns.
C11_ShortCircuitBySetSize ==
    [][(run' = run + 1 /\ DirectoryCheck(dir_exists, pdf_dir) = "ok") =>
          /\ message'.kind = "all_added" =>
                 Cardinality(FileNames(db)) = Cardinality(pdf_dir)
          /\ pc' = "loop" =>
                 Cardinality(existing_reports_filenames') # Cardinality(pdf_dir)]_vars

\* The state of document f in the state machine of the specification, read
\* from the controller's record ds of the document and the position of the
\* worker wk that holds it: _create_metadata_from_tables and the
\* _create_*_from_table calls are Mapping, the save_* calls (and the return
\* of True that follows the last one) are Persisting; "Raised" is a worker
\* whose exception process_single_file has caught and not yet reported.
DocPhase(ds, wk, f) ==
    IF ds[f] # "InWorker" THEN ds[f]
    ELSE CASE wk.pc = "extract" -> "Extracting"
           [] wk.pc \in {"map_meta", "map_child"} -> "Mapping"
           [] wk.pc \in {"save_meta", "save_child", "done"} -> "Persisting"
           [] OTHER -> "Raised"

\* The transitions of the state machine; a worker may raise or run out of
\* time in any of its three phases.
DocTransitions ==
    {<<"Discovered", "Skipped">>, <<"Discovered", "Extracting">>,
     <<"Extracting", "Mapping">>, <<"Mapping", "Persisting">>,
     <<"Persisting", "Committed">>, <<"Raised", "Failed">>}
    \cup ({"Extracting", "Mapping", "Persisting"} \X {"Raised", "TimedOut"})
    \cup {<<"Raised", "TimedOut">>}

\* C12: within a call every document moves only along Discovered -> Skipped
\* or Discovered -> Extracting -> Mapping -> Persisting -> {Committed,
\* Failed, TimedOut}, never leaves a terminal state, and a document that is
\* skipped gets no worker and causes no store write.
C12_DocumentStateMachine ==
    [][run' = run =>
          \A f \in Files :
             LET from == DocPhase(doc_state, w, f)
                 to == DocPhase(doc_state', w', f)
             IN  /\ from # to => <<from, to>> \in DocTransitions
                 /\ (from # to /\ to = "Skipped") =>
                        (handed'[f] = 0 /\ w' = NoWorker /\ db' = db)]_vars

\* C13: in a call that reaches the loop the documents are visited in
\* ascending file name order, and the progress callback is invoked once per
\* discovered document, skipped ones included, with (index, total, name),
\* the indices running from 0 to total - 1, before the document is skipped
\* or handed to a worker.
C13_ProgressInOrder ==
    /\ \A k \in 1..Len(pdf_files) - 1 : pdf_files[k] < pdf_files[k + 1]
    /\ Len(progress) <= total_files
    /\ \A k \in 1..Len(progress) : progress[k] = <<k - 1, total_files, pdf_files[k]>>
    /\ \A k \in 1..Len(pdf_files) :
          doc_state[pdf_files[k]] # "Discovered" => k <= Len(progress)
    /\ pc \in {"loop", "wait"} => Len(progress) = i + (IF pc = "wait" THEN 1 ELSE 0)
    /\ BatchReturned => Len(progress) = total_files

C13_Witness ==
    /\ BatchReturned
    /\ total_files = 2
    /\ doc_state[pdf_files[1]] = "Skipped"
    /\ doc_state[pdf_files[2]] = "Committed"

\* The first signed decimal or integer substring of s, the sign included:
\* the leftmost match of [-+]?(\d*\.\d+|\d+), <<>> when s has none.
SignedNumberAt(s, p) ==
    LET q == IF p <= Len(s) /\ s[p] \in {"-", "+"} THEN p + 1 ELSE p
        n == IF UnsignedDecimalAt(s, q) > 0 THEN UnsignedDecimalAt(s, q)
             ELSE DigitRun(s, q)
    IN  IF n > 0 THEN (q - p) + n ELSE 0

FirstSignedNumber(s) ==
    IF \E p \in 1..Len(s) : SignedNumberAt(s, p) > 0
    THEN LET p == CHOOSE x \in 1..Len(s) :
                      SignedNumberAt(s, x) > 0
                      /\ \A y \in 1..(x - 1) : SignedNumberAt(s, y) = 0
         IN  SubSeq(s, p, p + SignedNumberAt(s, p) - 1)
    ELSE <<>>

\* C14: the value stored in a numeric field is null, or the float equal to
\* the first signed decimal or integer substring of the cell text, sign
\* included ("12.5 m" -> 12.5, "-12" -> -12, "N/A" -> null), never a text.
C14_NumericCoercion ==
    fn_res # NotCalled =>
        /\ fn_res.kind \in {"null", "float"}
        /\ fn_arg.kind = "none" => fn_res.kind = "null"
        /\ fn_arg.kind = "str" =>
              IF FirstSignedNumber(fn_arg.text) = <<>> THEN fn_res.kind = "null"
              ELSE fn_res = [kind |-> "float", scaled |-> float(FirstSignedNumber(fn_arg.text))]

\* s.replace(a, b) for single characters.
Replaced(s, a, b) == [k \in 1..Len(s) |-> IF s[k] = a THEN b ELSE s[k]]

\* The tokens of the stem, and whether the last three hold a hyphen.
StemTokens == split(fn_arg.text, "_")

HyphenInPeriod ==
    \E k \in (Len(StemTokens) - 2)..Len(StemTokens) :
        \E j \in 1..Len(StemTokens[k]) : StemTokens[k][j] = "-"

\* What the stem's tokens give, apart from the round trip.
IdentityOfTokens ==
    LET n == Len(StemTokens)
    IN  IF n >= 4
        THEN /\ fn_res.report_period = join(SubSeq(StemTokens, n - 2, n), "-")
             /\ fn_res.wellbore_name = join(SubSeq(StemTokens, 1, n - 3), "_")
        ELSE /\ fn_res.wellbore_name = fn_arg.text
             /\ fn_res.report_period = Unknown

RoundTrip ==
    fn_res.wellbore_name \o <<"_">> \o Replaced(fn_res.report_period, "-", "_")
        = fn_arg.text

\* C15, as stated: with four or more tokens the last three joined with
\* hyphens are report_period and the leading ones joined with underscores
\* are wellbore_name, so that wellbore_name + '_' + report_period with '-'
\* replaced by '_' gives back the stem; with fewer tokens wellbore_name is
\* the stem and report_period is "Unknown".
C15_FilenameIdentity_AsStated ==
    fn_res # NotCalled =>
        /\ IdentityOfTokens
        /\ Len(StemTokens) >= 4 => RoundTrip

\* C15, amended: the same, the round trip holding exactly when none of the
\* last three tokens holds a hyphen.
C15_FilenameIdentity ==
    fn_res # NotCalled =>
        /\ IdentityOfTokens
        /\ Len(StemTokens) >= 4 => (RoundTrip <=> ~HyphenInPeriod)

C15_Witness ==
    /\ fn_res # NotCalled
    /\ fn_arg.text = <<"a", "_", "a", "_", "a", "_", "a">>
    /\ fn_res.wellbore_name = <<"a">>
    /\ fn_res.report_period = <<"a", "-", "a", "-", "a">>

\* The label of a first cell: lower-cased, parentheses dropped, '+' spelled
\* out, and its words (what blanks, hyphens and colons separate) joined by
\* single underscores.
LabelOf(s) ==
    LET spelled == replace(replace(lower(s), "(", <<>>), "+", <<"p", "l", "u", "s">>)
        words == split(Replaced(Replaced(spelled, "-", " "), ":", " "), " ")
    IN  join(SelectSeq(words, LAMBDA word : word # <<>>), "_")

\* A first cell of blanks followed by colons: nothing is left of it once
\* the colons and the surrounding blanks are stripped.
BlankLabel(s) ==
    \E k \in 0..Len(s) : \A j \in 1..Len(s) : s[j] = (IF j <= k THEN " " ELSE ":")

\* The first non-null cell among the columns after the first, or None.
FirstNonNull(row) ==
    IF \E k \in 2..Len(row) : row[k] # None
    THEN row[CHOOSE k \in 2..Len(row) :
                 row[k] # None /\ \A j \in 2..(k - 1) : row[j] = None]
    ELSE None

\* Row n of the parsed table has a first cell and a value column.
HasKey(n) == Len(fn_arg.rows[n]) >= 2 /\ fn_arg.rows[n][1] # None

\* Row n has a label, which is not blank.
HasLabel(n) == HasKey(n) /\ ~BlankLabel(fn_arg.rows[n][1].text)

RowItem(n) == <<LabelOf(fn_arg.rows[n][1].text), FirstNonNull(fn_arg.rows[n])>>

\* C16, as stated: parse_key_value_table maps each row to (label -> value),
\* the label being the first cell with the colon stripped, lower-cased and
\* the separators collapsed to single underscores, the value the first
\* non-null cell among the remaining columns.  Of two rows with one label
\* the dictionary holds the later.
C16_KeyValueRows_AsStated ==
    fn_res # NotCalled =>
        \A n \in 1..Len(fn_arg.rows) :
            (HasKey(n) /\ \A m \in (n + 1)..Len(fn_arg.rows) :
                              HasKey(m) => RowItem(m)[1] # RowItem(n)[1])
               => RowItem(n) \in fn_res.items

\* C16, amended: the dictionary holds exactly the items of the rows whose
\* first cell is not null and not blank once its trailing colons and the
\* surrounding blanks are stripped; of rows with one label, the last.
C16_KeyValueRows ==
    fn_res # NotCalled =>
        fn_res.items =
            {RowItem(n) : n \in {k \in 1..Len(fn_arg.rows) :
                 HasLabel(k) /\ \A m \in (k + 1)..Len(fn_arg.rows) :
                                   HasLabel(m) => RowItem(m)[1] # RowItem(k)[1]}}

\* first column ["A:", "AA"], the value of the second row in the third column
C16_Witness ==
    /\ fn_arg.kind = "table"
    /\ fn_arg.rows = << <<Text(<<"A", ":">>), Text(<<"x">>), None>>,
                        <<Text(<<"A", "A">>), None, Text(<<"y">>)>> >>
    /\ fn_res # NotCalled
    /\ fn_res.items = {<<(<<"a">>), Text(<<"x">>)>>, <<(<<"a", "a">>), Text(<<"y">>)>>}

\* The column labels are placeholders and the first row has at least two
\* cells with a letter.
HeaderInFirstRow ==
    /\ is_generic_index(fn_arg.df.columns)
    /\ Len(fn_arg.df.rows) > 0
    /\ Cardinality({k \in 1..3 : /\ fn_arg.df.rows[1][k] # None
                                 /\ \E j \in 1..Len(fn_arg.df.rows[1][k].text) :
                                       fn_arg.df.rows[1][k].text[j] \in Letters}) >= 2

\* C17: when the column labels are placeholders and the first data row has
\* at least two cells with letters, that row becomes the header and leaves
\* the data, and one record is emitted per remaining row; with the first row
\* ["Start", "End", "Remark"] the following rows parse into operation
\* records whose start, end and remark values are those of the row (a row
\* with none of the three gives no operation record).
C17_TabularHeader ==
    (fn_res # NotCalled /\ HeaderInFirstRow) =>
        /\ fn_res.records.rows = Tail(fn_arg.df.rows)
        /\ fn_arg.df.rows[1] = <<Text(<<"S", "t", "a", "r", "t">>), Text(<<"E", "n", "d">>), Text(<<"R", "e", "m", "a", "r", "k">>)>> =>
              fn_res.operations =
                  SelectSeq([n \in 1..(Len(fn_arg.df.rows) - 1) |->
                                [start_time |-> fn_arg.df.rows[n + 1][1],
                                 end_time |-> fn_arg.df.rows[n + 1][2],
                                 remark |-> fn_arg.df.rows[n + 1][3]]],
                            LAMBDA o : o.start_time # None \/ o.end_time # None
                                           \/ o.remark # None)

\* C18: inside one worker the whole entity set of the document is assembled
\* before the first write: no mapping step runs once the worker has written
\* a row of its report.
C18_AssembleBeforeWrite ==
    w.pc \in {"map_meta", "map_child"} => ~HasRows(db, w.report_id)

\* C19: at most one worker exists at any moment: a worker exists only while
\* the controller waits for the result of the document it was started for,
\* so the worker of a timed-out or failed document is gone before the next
\* is started, and every row a worker writes is written while the
\* controller waits for that worker's own document.
C19_OneWorker ==
    /\ [](pc # "wait" => w = NoWorker)
    /\ [](w # NoWorker => /\ i < total_files
                          /\ w.file = pdf_files[i + 1]
                          /\ doc_state[w.file] = "InWorker")
    /\ [][\A t \in {"report_metadata"} \cup ChildNames :
            \A r \in db'[t] \ db[t] :
                /\ pc = "wait"
                /\ w.file = pdf_files[i + 1]
                /\ r.report_id = w.report_id
                /\ doc_state[w.file] = "InWorker"]_vars

\* The first document timed out with rows in the store, and the worker of
\* the second is about to write.
C19_Witness ==
    /\ pc = "wait"
    /\ i = 1
    /\ doc_state[pdf_files[1]] = "TimedOut"
    /\ HasRows(db, doc_rid[pdf_files[1]])
    /\ w.file = pdf_files[2]
    /\ w.pc = "save_child"

\* C20: initialize_data returns for every directory, also when extraction
\* hangs for ever: a call that has entered the loop returns its batch summary,
\* the deadline can expire whenever the controller waits, and no document is
\* waited for twice in a call (a hanging document costs one timeout).
C20_Terminates ==
    /\ (pc # "idle") ~> BatchReturned
    /\ [](\A f \in Files : handed[f] <= 1)

\* A call has returned with a document that timed out during extraction.
C20_Witness ==
    /\ BatchReturned
    /\ \E f \in Files : doc_state[f] = "TimedOut" /\ doc_rid[f] = 0

\* The first-column values of the classified table that are not null, and
\* those of them that end with a colon (white space after it apart).
FirstColumn ==
    SelectSeq([n \in 1..Len(fn_arg.df.rows) |-> fn_arg.df.rows[n][1]], LAMBDA x : x # None)

EndWithColon ==
    SelectSeq(FirstColumn, LAMBDA x : \E k \in 1..Len(x.text) :
                  x.text[k] = ":" /\ \A j \in (k + 1)..Len(x.text) : x.text[j] = " ")

\* The column labels are anonymous placeholders: the integers for which the
\* tabular path looks for a header in the first row, or pandas' "Unnamed".
AnonymousColumns ==
    \/ is_generic_index(fn_arg.df.columns)
    \/ \E k \in 1..Len(fn_arg.df.columns) :
           Contains(fn_arg.df.columns[k].text, <<"U", "n", "n", "a", "m", "e", "d">>)

\* C21: is_key_value_table is true exactly when the table has at most 4
\* columns and its column labels are anonymous placeholders (those of the
\* header promotion of the tabular path) or more than 30% of its
\* first-column values end with a colon.
C21_Classification ==
    fn_res # NotCalled =>
        (fn_res.value <=>
            /\ Len(fn_arg.df.columns) <= 4
            /\ \/ AnonymousColumns
               \/ /\ Len(FirstColumn) > 0
                  /\ 10 * Len(EndWithColon) > 3 * Len(FirstColumn))

\* C22: the classification selects the mapper: every extracted table goes
\* through exactly one mapper, a table classified tabular is not merged
\* into the metadata mapping, and a table classified key-value is merged
\* and not parsed into child records.
C22_OneMapperPath ==
    fn_res # NotCalled =>
        /\ Cardinality(fn_res.paths) = 1
        /\ ("metadata" \in fn_res.paths) <=> is_key_value_table(fn_arg.df)

\* C23: in the metadata, operations and gas-reading mappers alike a
\* candidate key resolves to a canonical field when the candidate contains
\* the canonical name or the canonical name contains the candidate: the
\* field is resolved exactly when some key of the mapping does either.
C23_SymmetricResolution ==
    (fn_res # NotCalled /\ fn_arg.kind = "resolve") =>
        (fn_res.found <=>
            \E k \in 1..Len(fn_arg.keys) :
                \/ Contains(fn_arg.keys[k], fn_arg.canonical)
                \/ Contains(fn_arg.canonical, fn_arg.keys[k]))

\* C24: the tabular path and the key-value path normalize a label alike:
\* for every label that the key-value path gives a key, the column name of
\* parse_tabular_table is that key.
C24_SameNormalization ==
    (fn_res # NotCalled /\ fn_arg.kind = "label" /\ fn_res.has_key) =>
        fn_res.column = fn_res.key

\* The tables of the document in the order of extraction: the common
\* region first, then the sections.
ExtractedInOrder ==
    (IF fn_arg.common.present THEN <<fn_arg.common.table>> ELSE <<>>)
        \o [j \in 1..Len(fn_arg.sections) |-> fn_arg.sections[j].table]

\* C25: the merge order is the extraction order: when several key-value
\* tables define a key, the combined mapping holds the value of the one
\* that is last in extraction order.
C25_MergeOrder ==
    (fn_res # NotCalled /\ fn_arg.kind = "extraction") =>
        \A k \in 1..Len(ExtractedInOrder) :
            (/\ ExtractedInOrder[k].defines
             /\ \A j \in (k + 1)..Len(ExtractedInOrder) : ~ExtractedInOrder[j].defines)
               => fn_res.value = ExtractedInOrder[k].number

\* A value is present when it is neither null nor the empty text.
Present(value) == value # None /\ value.text # <<>>

\* The fields of the source rows of the table, before any row is dropped.
SourceRecords ==
    LET df == fn_arg.df
        frame == parse_tabular_table(df)
    IN  CASE fn_arg.mapper = "operations" ->
                 [n \in 1..Len(frame.rows) |->
                     [start_time |-> field_value(frame.columns, frame.rows[n], <<"s", "t", "a", "r", "t", "_", "t", "i", "m", "e">>),
                      end_time |-> field_value(frame.columns, frame.rows[n], <<"e", "n", "d", "_", "t", "i", "m", "e">>),
                      remark |-> field_value(frame.columns, frame.rows[n], <<"r", "e", "m", "a", "r", "k">>)]]
          [] fn_arg.mapper = "drilling_fluid" ->
                 [n \in 1..Len(df.rows) |-> [parameter_name |-> df.rows[n][1]]]
          [] fn_arg.mapper = "gas_readings" ->
                 [n \in 1..Len(frame.rows) |->
                     [f \in GasFields |-> coerce(field_value(frame.columns, frame.rows[n], f))]]

\* The keep rule of a record of the kind of the table.
KeepRule(r) ==
    CASE fn_arg.mapper = "operations" ->
             Present(r.start_time) \/ Present(r.end_time) \/ Present(r.remark)
      [] fn_arg.mapper = "drilling_fluid" ->
             r.parameter_name # None /\ Len(r.parameter_name.text) >= 2
      [] fn_arg.mapper = "gas_readings" ->
             \E f \in GasFields : r[f].kind = "float"

\* C26: every child record the assembler emits satisfies the keep rule of
\* its kind (an operation has a start_time, end_time or remark; a drilling
\* fluid record has a parameter_name of at least 2 characters; a gas
\* reading has a non-null numeric field), and every source row that
\* satisfies its rule yields a record: the emitted records are, in order,
\* those of the source rows that satisfy the rule.
C26_KeepDropRules ==
    (fn_res # NotCalled /\ fn_arg.kind = "child_table") =>
        LET kept == SelectSeq(SourceRecords, KeepRule)
        IN  /\ \A n \in 1..Len(fn_res.records) : KeepRule(fn_res.records[n])
            /\ Len(fn_res.records) = Len(kept)
            /\ \A n \in 1..Len(kept) :
                   \A f \in DOMAIN kept[n] : fn_res.records[n][f] = kept[n][f]

\* A step of the detection of the sections of page p fails.
PageFails(p) ==
    \/ fn_arg.pages[p].raises # "none"
    \/ \E k \in 1..Len(fn_arg.pages[p].boxes) :
           fn_arg.pages[p].boxes[k].outcome # "text"

\* C27: a failure while the sections of one page are detected is caught:
\* extract_sections does not raise, no returned section is of that page,
\* and the header texts of the pages without a failure are all returned.
C27_PageFailureCaught ==
    (fn_res # NotCalled /\ fn_arg.kind = "pages") =>
        /\ fn_res.kind = "sections"
        /\ \A p \in 1..Len(fn_arg.pages) :
               IF PageFails(p)
               THEN \A n \in 1..Len(fn_res.sections) : fn_res.sections[n].page # p
               ELSE \A k \in 1..Len(fn_arg.pages[p].boxes) :
                       \E n \in 1..Len(fn_res.sections) :
                           fn_res.sections[n].text = fn_arg.pages[p].boxes[k].text

\* C28: after any sequence of initialize_data runs, whatever the directory
\* held at each run and whatever failed in it, no two report_metadata rows
\* have the same file_name.
C28_FileIngestedOnce ==
    \A m1, m2 \in db.report_metadata :
        m1.file_name = m2.file_name => m1 = m2

\* C29: whenever initialize_data returns the "all already added" result
\* without visiting a document, every discovered document has its file
\* name in report_metadata.
C29_ShortCircuitSound ==
    [][(run' = run + 1 /\ message'.kind = "all_added") =>
          \A f \in pdf_dir : f \in FileNames(db)]_vars

\* C30: every window handed to the lattice table extractor, for the common
\* region and for each section, is a non-empty window inside its page:
\* 0 <= bottom < top <= page_height.
C30_WindowInsidePage ==
    (fn_res # NotCalled /\ fn_arg.kind = "sections") =>
        \A n \in 1..Len(fn_res.regions) :
            /\ 0 <= fn_res.regions[n].y2
            /\ fn_res.regions[n].y2 < fn_res.regions[n].y1
            /\ fn_res.regions[n].y1 <= fn_res.regions[n].page_height

====
